---- MODULE Spec2Model ----
(***************************************************************************)
(* Persona Engine: the trait-mutation pipeline.                            *)
(*                                                                         *)
(* Persona entity (core/domain/persona_model.py, core/persona_model.py),   *)
(* the trait mutation service (core/services/persona_domain_service.py and *)
(* the older core/persona_domain_service.py), the two Store backends       *)
(* (adapters/repositories) and the three use cases (usecases/).            *)
(* The repositories are modelled twice: as one step per call, which is how *)
(* the use cases see them, and call by call with the lock and the session  *)
(* of each call as steps of their own (RepoSpec).                          *)
(*                                                                         *)
(* Trait values are floats in the source; the model uses integers, with    *)
(* MIN_TRAIT_VALUE = 1 and MAX_TRAIT_VALUE = 5 the closed bounds and 0 and *)
(* 6 the nearest values outside them.  Python objects live in `heap` and   *)
(* are referred to by their index, so that two names for one object (the   *)
(* in-memory Store hands out the object it stores) are one heap cell.      *)
(***************************************************************************)
EXTENDS Integers, Sequences, FiniteSets, TLC

----------------------------------------------------------------------------
(* Program constants *)

MIN_TRAIT_VALUE == 1
MAX_TRAIT_VALUE == 5
DEFAULT_TRAIT_VALUE == 3

TRAIT_NAMES ==
    <<"openness", "conscientiousness", "extraversion", "agreeableness",
      "neuroticism">>

TraitSet == {TRAIT_NAMES[i] : i \in 1..Len(TRAIT_NAMES)}

(* A value that is neither int nor float (a string, None): isinstance(v,   *)
(* (int, float)) is false of it and of nothing else.                       *)
NonNumeric == -1

IsNumber(v) == v # NonNumeric

----------------------------------------------------------------------------
(* Bounds of the model *)

MaxOps == 2        \* use-case invocations started in one behaviour
MaxSvcCalls == 2   \* update_trait calls on one persona in the service spec
MaxDictCalls == 2  \* to_dict calls on one persona

UserIds == {"u1", "u2"}
Procs == {"t1", "t2"}

(* Error values: the Python exception class that leaves the call, with the *)
(* message where one class is raised for two reasons.                      *)
NoError == "none"

----------------------------------------------------------------------------
(* Persona entity.  An object is a record: cls names its class ("domain"   *)
(* for core.domain.persona_model.Persona, "legacy" for                     *)
(* core.persona_model.Persona), the other fields are its instance          *)
(* attributes.                                                             *)

DomainPersonaObj(user_id, o, c, e, a, n) ==
    [cls |-> "domain", user_id |-> user_id, openness |-> o,
     conscientiousness |-> c, extraversion |-> e, agreeableness |-> a,
     neuroticism |-> n]

LegacyPersonaObj(o, c, e, a, n) ==
    [cls |-> "legacy", openness |-> o, conscientiousness |-> c,
     extraversion |-> e, agreeableness |-> a, neuroticism |-> n,
     metadata |-> "dict"]

(* Names that getattr finds on the class rather than on the instance. *)
ClassAttrs(cls) ==
    IF cls = "domain"
    THEN {"MIN_TRAIT_VALUE", "MAX_TRAIT_VALUE", "TRAIT_NAMES", "validate_ranges",
          "to_dict", "metadata", "registry"}
    ELSE {"MIN_TRAIT_VALUE", "MAX_TRAIT_VALUE", "TRAIT_NAMES", "validate_ranges",
          "to_dict"}

hasattr(persona, name) ==
    name \in ((DOMAIN persona) \ {"cls"}) \cup ClassAttrs(persona.cls)

setattr(persona, name, value) ==
    [k \in (DOMAIN persona) \cup {name} |-> IF k = name THEN value ELSE persona[k]]

(* Persona.validate_ranges of the domain class: the traits it reports.     *)
(* `not MIN <= value <= MAX` raises TypeError on a value that is no number.*)
InRange(value) == MIN_TRAIT_VALUE <= value /\ value <= MAX_TRAIT_VALUE

DomainInvalidTraits(persona) ==
    SelectSeq(TRAIT_NAMES, LAMBDA t : ~InRange(persona[t]))

DomainHasNonNumber(persona) ==
    \E t \in TraitSet : ~IsNumber(persona[t])

(* Persona.validate_ranges of the legacy dataclass. *)
LegacyInvalidTraits(persona) ==
    SelectSeq(TRAIT_NAMES,
              LAMBDA t : \/ ~IsNumber(persona[t])
                         \/ persona[t] < MIN_TRAIT_VALUE
                         \/ persona[t] > MAX_TRAIT_VALUE)

(* validate_ranges as called on an object: the error it raises (NoError if *)
(* it returns) and the traits its message names.                           *)
validate_ranges(persona) ==
    IF persona.cls = "domain"
    THEN IF DomainHasNonNumber(persona)
         THEN [err |-> "TypeError", invalid |-> <<>>]
         ELSE LET bad == DomainInvalidTraits(persona)
              IN  [err |-> IF bad = <<>> THEN NoError ELSE "PersonaValidationError",
                   invalid |-> bad]
    ELSE LET bad == LegacyInvalidTraits(persona)
         IN  [err |-> IF bad = <<>> THEN NoError ELSE "PersonaValidationError",
              invalid |-> bad]

(* Persona(...) of the domain class: __init__ assigns, then validates.     *)
NewDomainPersona(user_id, o, c, e, a, n) ==
    LET obj == DomainPersonaObj(user_id, o, c, e, a, n)
    IN  [err |-> validate_ranges(obj).err, obj |-> obj]

(* Persona(...) of the legacy dataclass: __post_init__ validates. *)
NewLegacyPersona(o, c, e, a, n) ==
    LET obj == LegacyPersonaObj(o, c, e, a, n)
    IN  [err |-> validate_ranges(obj).err, obj |-> obj]

Traits(persona) == [t \in TraitSet |-> persona[t]]

(* The keys of the dict that to_dict builds: the domain class lists        *)
(* user_id and the five traits, the legacy class the five traits.          *)
DictKeys(cls) ==
    IF cls = "domain" THEN TraitSet \cup {"user_id"} ELSE TraitSet

(* A dict object: cls "dict", the other fields are its items. *)
DictObj(items) ==
    [k \in (DOMAIN items) \cup {"cls"} |-> IF k = "cls" THEN "dict" ELSE items[k]]

(* Mutant: to_dict returns the object's own attribute dict. *)
to_dict_MutReturnsAttributes(h, ref) ==
    [heap |-> h, ref |-> ref]

(* Persona.to_dict of either class: a new dict object on the heap h,       *)
(* filled from the attributes of the persona at ref.                       *)
to_dict(h, ref) ==
    [heap |-> Append(h, DictObj([k \in DictKeys(h[ref].cls) |-> h[ref][k]])),
     ref |-> Len(h) + 1]

(* d[key] = value on the object at ref *)
setitem(h, ref, key, value) ==
    [h EXCEPT ![ref] = [k \in (DOMAIN h[ref]) \cup {key} |->
                           IF k = key THEN value ELSE h[ref][k]]]

----------------------------------------------------------------------------
(* Trait mutation service.  The result is the error that leaves the call   *)
(* (NoError when it returns) and the object as the call leaves it; the     *)
(* call mutates the object it is given and returns that same object.       *)

(* Mutant: the service validates and returns without assigning. *)
update_trait_MutNoAssignment(persona, trait_name, new_value) ==
    IF trait_name \notin TraitSet
    THEN [err |-> "TraitNotFoundError", obj |-> persona]
    ELSE [err |-> validate_ranges(persona).err, obj |-> persona]

(* core/services/persona_domain_service.py *)
update_trait(persona, trait_name, new_value) ==
    IF trait_name \notin TraitSet
    THEN [err |-> "TraitNotFoundError", obj |-> persona]
    ELSE LET assigned == setattr(persona, trait_name, new_value)
         IN  [err |-> validate_ranges(assigned).err, obj |-> assigned]

(* core/persona_domain_service.py: the debug line reads persona.id before  *)
(* the try block; then hasattr, pre-image, assignment, validation, and the *)
(* pre-image restored when validation raises.                              *)
legacy_update_trait(persona, trait_name, new_value) ==
    IF ~hasattr(persona, "id")
    THEN [err |-> "AttributeError", obj |-> persona]
    ELSE IF ~hasattr(persona, trait_name)
    THEN [err |-> "TraitNotFoundError", obj |-> persona]
    ELSE LET previous_value == IF trait_name \in DOMAIN persona
                               THEN persona[trait_name] ELSE "class attribute"
             assigned == setattr(persona, trait_name, new_value)
         IN  IF validate_ranges(assigned).err = NoError
             THEN [err |-> NoError, obj |-> assigned]
             ELSE [err |-> "TraitValidationError",
                   obj |-> setattr(assigned, trait_name, previous_value)]

----------------------------------------------------------------------------
(* State *)

VARIABLES
    backend,   \* which Store the use cases were constructed with
    heap,      \* the Persona objects created so far; a reference is an index
    storage,   \* InMemoryPersonaRepository._storage: user id -> reference, 0 = no key
    table,     \* the personas table: user id -> row of five traits, Absent = no row
    proc,      \* per thread: the use-case invocation it runs and its locals
    ops,       \* invocations started
    svc,       \* the persona and the last call of the service specification
    db,        \* whether the database answers: "up" or "down"
    rep,       \* per thread: the repository call it makes directly, and its locals
    lock,      \* InMemoryPersonaRepository._lock: owner and recursion count
    eq,        \* the last call made on both repositories, and what each answered
    ctor,      \* the arguments and outcome of a Persona construction
    view       \* a persona a caller holds and the records to_dict returned for it

vars == <<backend, heap, storage, table, proc, ops, svc, db, rep, lock, eq, ctor,
         view>>

(* The state of the specifications that call the repositories and the      *)
(* entity directly; the use cases never touch it.                          *)
direct == <<rep, lock, eq, ctor, view>>

None == 0
Absent == <<>>

(* A Python dict as the sequence of its <<key, value>> items in insertion  *)
(* order: d.get(key) and d[key] = value.                                   *)
dict_get(d, key) ==
    LET at == {i \in DOMAIN d : d[i][1] = key}
    IN  IF at = {} THEN None ELSE d[CHOOSE i \in at : TRUE][2]

dict_set(d, key, value) ==
    IF \E i \in DOMAIN d : d[i][1] = key
    THEN [i \in DOMAIN d |-> IF d[i][1] = key THEN <<key, value>> ELSE d[i]]
    ELSE Append(d, <<key, value>>)

(* The personas table as the sequence of its rows; a row has the user_id   *)
(* column and the five trait columns.                                      *)
Row(user_id, persona_data) ==
    [k \in TraitSet \cup {"user_id"} |->
        IF k = "user_id" THEN user_id ELSE persona_data[k]]

(* query(personas_table).filter_by(user_id=...) and .first() *)
filter_by(rows, user_id) == SelectSeq(rows, LAMBDA r : r["user_id"] = user_id)

first(rows) == IF rows = <<>> THEN Absent ELSE rows[1]

(* Mutant: a table without the primary key. *)
insert_MutNoPrimaryKey(rows, user_id, persona_data) ==
    [err |-> NoError, table |-> Append(rows, Row(user_id, persona_data))]

(* insert().values(...): user_id is the primary key. *)
insert(rows, user_id, persona_data) ==
    IF filter_by(rows, user_id) # <<>>
    THEN [err |-> "IntegrityError", table |-> rows]
    ELSE [err |-> NoError, table |-> Append(rows, Row(user_id, persona_data))]

(* Mutant: the update writes the first trait column only. *)
update_MutWritesOneColumn(rows, user_id, persona_data) ==
    [err |-> NoError,
     table |-> [i \in DOMAIN rows |->
                   IF rows[i]["user_id"] = user_id
                   THEN [rows[i] EXCEPT ![TRAIT_NAMES[1]] =
                             persona_data[TRAIT_NAMES[1]]]
                   ELSE rows[i]]]

(* Mutant: the statement has no filter and updates every row. *)
update_MutEveryRow(rows, user_id, persona_data) ==
    [err |-> NoError,
     table |-> [i \in DOMAIN rows |-> Row(rows[i]["user_id"], persona_data)]]

(* Mutant: the statement changes no row. *)
update_MutWritesNothing(rows, user_id, persona_data) ==
    [err |-> NoError, table |-> rows]

(* Mutant: the statement deletes the row it should update. *)
update_MutDeletesRow(rows, user_id, persona_data) ==
    [err |-> NoError,
     table |-> SelectSeq(rows, LAMBDA r : r["user_id"] # user_id)]

(* query(...).filter_by(user_id=...).update(persona_data) *)
update(rows, user_id, persona_data) ==
    [err |-> NoError,
     table |-> [i \in DOMAIN rows |->
                   IF rows[i]["user_id"] = user_id
                   THEN Row(user_id, persona_data) ELSE rows[i]]]

(* What a Store holds for a user id: the five traits, or Absent. *)
StoreView(user_id) ==
    IF backend = "memory"
    THEN IF dict_get(storage, user_id) = None THEN Absent
         ELSE Traits(heap[dict_get(storage, user_id)])
    ELSE IF filter_by(table, user_id) = <<>> THEN Absent
         ELSE Traits(first(filter_by(table, user_id)))

----------------------------------------------------------------------------
(* InMemoryPersonaRepository: the dict holds references to the objects it  *)
(* is given and get_persona hands the stored reference out.                *)

InMemory_get_persona(user_id) ==
    IF user_id = ""
    THEN [err |-> "ValueError: user_id cannot be empty or None", ref |-> None,
          heap |-> heap]
    ELSE [err |-> NoError, ref |-> dict_get(storage, user_id), heap |-> heap]

InMemory_save_persona(h, user_id, ref) ==
    IF user_id = ""
    THEN [err |-> "ValueError: user_id cannot be empty or None",
          storage |-> storage, table |-> table]
    ELSE IF ref = None
    THEN [err |-> "ValueError: persona cannot be None",
          storage |-> storage, table |-> table]
    ELSE [err |-> NoError, storage |-> dict_set(storage, user_id, ref),
          table |-> table]

(* SQLAlchemyPersonaRepository: get_persona builds a new legacy Persona    *)
(* from the row; save_persona accepts only instances of that class and     *)
(* writes the five traits (insert if no row, update otherwise).  h is the   *)
(* heap the reference is read in.                                          *)

(* Mutant: builds the persona with two columns exchanged. *)
SQLAlchemy_get_persona_MutSwapsColumns(user_id) ==
    IF db = "down"
    THEN [err |-> "DatabaseError", ref |-> None, heap |-> heap]
    ELSE IF filter_by(table, user_id) = <<>>
    THEN [err |-> NoError, ref |-> None, heap |-> heap]
    ELSE LET row == first(filter_by(table, user_id))
             made == NewLegacyPersona(row["neuroticism"], row["conscientiousness"],
                                      row["extraversion"], row["agreeableness"],
                                      row["openness"])
         IN  [err |-> NoError, ref |-> Len(heap) + 1,
              heap |-> Append(heap, made.obj)]

SQLAlchemy_get_persona(user_id) ==
    IF db = "down"
    THEN [err |-> "DatabaseError", ref |-> None, heap |-> heap]
    ELSE IF filter_by(table, user_id) = <<>>
    THEN [err |-> NoError, ref |-> None, heap |-> heap]
    ELSE LET row == first(filter_by(table, user_id))
             made == NewLegacyPersona(row["openness"], row["conscientiousness"],
                                      row["extraversion"], row["agreeableness"],
                                      row["neuroticism"])
         IN  IF made.err # NoError
             THEN [err |-> "DatabaseError", ref |-> None, heap |-> heap]
             ELSE [err |-> NoError, ref |-> Len(heap) + 1,
                   heap |-> Append(heap, made.obj)]

_persona_to_dict(persona) == Traits(persona)

(* Mutant: inserts when there is no row and leaves an existing row alone. *)
_save_or_update_persona_MutInsertOnly(existing, user_id, persona_data) ==
    IF existing # Absent
    THEN [err |-> NoError, table |-> table]
    ELSE insert(table, user_id, persona_data)

(* existing is what the query for the row returned. *)
_save_or_update_persona(existing, user_id, persona_data) ==
    IF existing # Absent
    THEN update(table, user_id, persona_data)
    ELSE insert(table, user_id, persona_data)

(* The argument tests save_persona makes before it opens a session. *)
SQLAlchemy_save_arguments(h, user_id, ref) ==
    IF user_id = "" THEN "ValueError: User ID cannot be empty"
    ELSE IF ref = None \/ h[ref].cls # "legacy"
    THEN "ValueError: Invalid persona object"
    ELSE NoError

SQLAlchemy_save_persona(h, user_id, ref) ==
    IF SQLAlchemy_save_arguments(h, user_id, ref) # NoError
    THEN [err |-> SQLAlchemy_save_arguments(h, user_id, ref),
          storage |-> storage, table |-> table]
    ELSE IF db = "down"
    THEN [err |-> "DatabaseError", storage |-> storage, table |-> table]
    ELSE LET r == _save_or_update_persona(first(filter_by(table, user_id)),
                                          user_id, _persona_to_dict(h[ref]))
         IN  [err |-> IF r.err = NoError THEN NoError ELSE "DatabaseError",
              storage |-> storage, table |-> r.table]

(* list_personas with its default limit and offset: the in-memory         *)
(* repository returns (user_id, persona) tuples, the relational one bare   *)
(* Persona objects built from the rows.                                    *)
InMemory_list_personas ==
    [err |-> NoError,
     list |-> [i \in DOMAIN storage |->
                  [user_id |-> storage[i][1],
                   persona |-> Traits(heap[storage[i][2]])]]]

SQLAlchemy_list_personas ==
    IF db = "down" THEN [err |-> "DatabaseError", list |-> <<>>]
    ELSE IF \E i \in DOMAIN table :
                NewLegacyPersona(table[i]["openness"],
                                 table[i]["conscientiousness"],
                                 table[i]["extraversion"],
                                 table[i]["agreeableness"],
                                 table[i]["neuroticism"]).err # NoError
    THEN [err |-> "DatabaseError", list |-> <<>>]
    ELSE [err |-> NoError,
          list |-> [i \in DOMAIN table |-> [persona |-> Traits(table[i])]]]

get_persona(user_id) ==
    IF backend = "memory" THEN InMemory_get_persona(user_id)
    ELSE SQLAlchemy_get_persona(user_id)

save_persona(h, user_id, ref) ==
    IF backend = "memory" THEN InMemory_save_persona(h, user_id, ref)
    ELSE SQLAlchemy_save_persona(h, user_id, ref)

----------------------------------------------------------------------------
(* Use cases (usecases/).  A thread runs one invocation at a time; each    *)
(* Store call and the service call is one step, so that threads interleave *)
(* between them.  proc[p] holds the invocation's arguments and locals:     *)
(*   persona  the reference execute() holds                                *)
(*   err      the exception that left execute(), NoError if none           *)
(*   ret      the reference execute() returned, result its traits then     *)
(*   calls    the Store and service calls execute() has made, in order     *)
(*   read     the traits of what the first get_persona returned            *)
(*   prev     the thread's previous invocation                             *)

UserIdInputs == UserIds \cup {""}
TraitNameInputs == {"openness", "neuroticism", "user_id", ""}
ValueInputs == {0, 1, 5, 6, NonNumeric}

(* The arguments the concurrent specification draws: those that pass the   *)
(* use cases' argument checks.                                             *)
ConcUserIds == UserIds
ConcTraitNames == {"openness", "neuroticism", "user_id"}
ConcLegacyTraitNames == {"openness"}
ConcValues == {1, 6}

IdleProc ==
    [op |-> "none", pc |-> "idle", user_id |-> "", trait_name |-> "",
     new_value |-> 0, persona |-> None, err |-> NoError, ret |-> None,
     result |-> Absent, calls |-> <<>>, read |-> Absent, prev |-> <<>>]


Summary(inv) ==
    [op |-> inv.op, user_id |-> inv.user_id, err |-> inv.err,
     result |-> inv.result, read |-> inv.read, calls |-> inv.calls]

Enter(p, op, user_id, trait_name, new_value, err) ==
    [op |-> op, pc |-> IF err = NoError THEN "get" ELSE "done",
     user_id |-> user_id, trait_name |-> trait_name, new_value |-> new_value,
     persona |-> None, err |-> err, ret |-> None, result |-> Absent,
     calls |-> <<>>, read |-> Absent, prev |-> Summary(proc[p])]

Raise(p, err, call) ==
    [proc[p] EXCEPT !.pc = "done", !.err = err,
                    !.calls = IF call = "" THEN @ ELSE Append(@, call)]

(* The first get_persona of an invocation has returned ref. *)
Got(p, ref, h, pc) ==
    [proc[p] EXCEPT !.pc = pc, !.persona = ref,
                    !.read = IF ref = None THEN Absent ELSE Traits(h[ref]),
                    !.calls = Append(@, "get")]

Return(p, ref, h, call) ==
    [proc[p] EXCEPT !.pc = "done", !.ret = ref,
                    !.result = IF ref = None THEN Absent ELSE Traits(h[ref]),
                    !.calls = IF call = "" THEN @ ELSE Append(@, call)]

(* The first get_persona returned an object and execute() returns it. *)
GotAndReturn(p, ref, h) ==
    [proc[p] EXCEPT !.pc = "done", !.persona = ref, !.read = Traits(h[ref]),
                    !.ret = ref, !.result = Traits(h[ref]),
                    !.calls = Append(@, "get")]

CanStart(p) == proc[p].pc \in {"idle", "done"} /\ ops < MaxOps

(* Mutant: the new value is not tested for being a number. *)
_validate_inputs_MutNoNumberTest(user_id, trait_name, new_value) ==
    IF user_id = "" THEN "ValueError: User ID cannot be empty"
    ELSE IF trait_name = "" THEN "ValueError: Trait name cannot be empty"
    ELSE NoError

(* UpdatePersonaUseCase._validate_inputs *)
_validate_inputs(user_id, trait_name, new_value) ==
    IF user_id = "" THEN "ValueError: User ID cannot be empty"
    ELSE IF trait_name = "" THEN "ValueError: Trait name cannot be empty"
    ELSE IF ~IsNumber(new_value) THEN "ValueError: Trait value must be a number"
    ELSE NoError

(* UpdatePersonaUseCase.execute *)
UpdateStart(p, user_id, trait_name, new_value) ==
    /\ CanStart(p)
    /\ proc' = [proc EXCEPT ![p] =
           Enter(p, "update", user_id, trait_name, new_value,
                 _validate_inputs(user_id, trait_name, new_value))]
    /\ ops' = ops + 1
    /\ UNCHANGED <<backend, heap, storage, table, svc, db, direct>>

(* application/update_persona_use_case.py: the same arguments check, then  *)
(* the steps below without the check for an absent persona and without the *)
(* read-back; every exception that is no ValueError leaves execute() as a  *)
(* RuntimeError.                                                           *)
LegacyUpdateStart(p, user_id, trait_name, new_value) ==
    /\ CanStart(p)
    /\ proc' = [proc EXCEPT ![p] =
           Enter(p, "legacy_update", user_id, trait_name, new_value,
                 _validate_inputs(user_id, trait_name, new_value))]
    /\ ops' = ops + 1
    /\ UNCHANGED <<backend, heap, storage, table, svc, db, direct>>

IsValueError(err) ==
    err \in {"PersonaValidationError",
             "ValueError: user_id cannot be empty or None",
             "ValueError: persona cannot be None",
             "ValueError: User ID cannot be empty",
             "ValueError: Invalid persona object"}

LegacyWrap(err) ==
    IF err = NoError \/ IsValueError(err) THEN err ELSE "RuntimeError"

IsUpdate(p) == proc[p].op \in {"update", "legacy_update"}

UpdateGet(p) ==
    /\ IsUpdate(p) /\ proc[p].pc = "get"
    /\ LET r == get_persona(proc[p].user_id)
       IN  /\ heap' = r.heap
           /\ proc' = [proc EXCEPT ![p] =
                  IF proc[p].op = "update"
                  THEN IF r.err # NoError THEN Raise(p, r.err, "get")
                       ELSE IF r.ref = None
                       THEN Raise(p, "ValueError: No persona found", "get")
                       ELSE Got(p, r.ref, r.heap, "mutate")
                  ELSE IF r.err # NoError
                       THEN Raise(p, LegacyWrap(r.err), "get")
                       ELSE Got(p, r.ref, r.heap, "mutate")]
    /\ UNCHANGED <<backend, storage, table, ops, svc, db, direct>>

(* The service call of either use case, on the object the thread holds. *)
ServiceCall(p) ==
    IF proc[p].op = "update"
    THEN update_trait(heap[proc[p].persona], proc[p].trait_name,
                      proc[p].new_value)
    ELSE IF proc[p].persona = None
    THEN [err |-> "AttributeError", obj |-> <<>>]
    ELSE legacy_update_trait(heap[proc[p].persona], proc[p].trait_name,
                             proc[p].new_value)

UpdateMutate(p) ==
    /\ IsUpdate(p) /\ proc[p].pc = "mutate"
    /\ LET r == ServiceCall(p)
           err == IF proc[p].op = "update" THEN r.err ELSE LegacyWrap(r.err)
       IN  /\ heap' = IF proc[p].persona = None THEN heap
                      ELSE [heap EXCEPT ![proc[p].persona] = r.obj]
           /\ proc' = [proc EXCEPT ![p] =
                  IF err # NoError THEN Raise(p, err, "update_trait")
                  ELSE [proc[p] EXCEPT !.pc = "save",
                                       !.calls = Append(@, "update_trait")]]
    /\ UNCHANGED <<backend, storage, table, ops, svc, db, direct>>

(* Mutant: a save that failed is followed by the read-back all the same. *)
UpdateSave_MutContinuesAfterFailure(p) ==
    /\ IsUpdate(p) /\ proc[p].pc = "save"
    /\ LET r == save_persona(heap, proc[p].user_id, proc[p].persona)
       IN  /\ storage' = r.storage
           /\ table' = r.table
           /\ proc' = [proc EXCEPT ![p] =
                  IF proc[p].op = "update"
                  THEN [proc[p] EXCEPT !.pc = "reget",
                                       !.calls = Append(@, "save")]
                  ELSE IF r.err # NoError THEN Raise(p, "RuntimeError", "save")
                       ELSE Return(p, proc[p].persona, heap, "save")]
    /\ UNCHANGED <<backend, heap, ops, svc, db, direct>>

UpdateSave(p) ==
    /\ IsUpdate(p) /\ proc[p].pc = "save"
    /\ LET r == save_persona(heap, proc[p].user_id, proc[p].persona)
       IN  /\ storage' = r.storage
           /\ table' = r.table
           /\ proc' = [proc EXCEPT ![p] =
                  IF proc[p].op = "update"
                  THEN IF r.err # NoError THEN Raise(p, r.err, "save")
                       ELSE [proc[p] EXCEPT !.pc = "reget",
                                            !.calls = Append(@, "save")]
                  ELSE IF r.err # NoError THEN Raise(p, "RuntimeError", "save")
                       ELSE Return(p, proc[p].persona, heap, "save")]
    /\ UNCHANGED <<backend, heap, ops, svc, db, direct>>

(* Mutant: returns the object it mutated, without reading it back. *)
UpdateReget_MutReturnsMutated(p) ==
    /\ proc[p].op = "update" /\ proc[p].pc = "reget"
    /\ proc' = [proc EXCEPT ![p] = Return(p, proc[p].persona, heap, "")]
    /\ UNCHANGED <<backend, heap, storage, table, ops, svc, db, direct>>

UpdateReget(p) ==
    /\ proc[p].op = "update" /\ proc[p].pc = "reget"
    /\ LET r == get_persona(proc[p].user_id)
       IN  /\ heap' = r.heap
           /\ proc' = [proc EXCEPT ![p] =
                  IF r.err # NoError THEN Raise(p, r.err, "get")
                  ELSE Return(p, r.ref, r.heap, "get")]
    /\ UNCHANGED <<backend, storage, table, ops, svc, db, direct>>

(* GetOrCreatePersonaUseCase.execute *)
GetOrCreateStart(p, user_id) ==
    /\ CanStart(p)
    /\ proc' = [proc EXCEPT ![p] =
           Enter(p, "get_or_create", user_id, "", 0,
                 IF user_id = ""
                 THEN "ValueError: User ID must be a non-empty string"
                 ELSE NoError)]
    /\ ops' = ops + 1
    /\ UNCHANGED <<backend, heap, storage, table, svc, db, direct>>

GetOrCreateGet(p) ==
    /\ proc[p].op = "get_or_create" /\ proc[p].pc = "get"
    /\ LET r == get_persona(proc[p].user_id)
       IN  /\ heap' = r.heap
           /\ proc' = [proc EXCEPT ![p] =
                  IF r.err # NoError THEN Raise(p, r.err, "get")
                  ELSE IF r.ref = None
                  THEN Got(p, r.ref, r.heap, "create")
                  ELSE GotAndReturn(p, r.ref, r.heap)]
    /\ UNCHANGED <<backend, storage, table, ops, svc, db, direct>>

(* GetOrCreatePersonaUseCase._create_default_persona *)
_create_default_persona(user_id) ==
    NewDomainPersona(user_id, DEFAULT_TRAIT_VALUE, DEFAULT_TRAIT_VALUE,
                     DEFAULT_TRAIT_VALUE, DEFAULT_TRAIT_VALUE,
                     DEFAULT_TRAIT_VALUE)

(* GetOrCreatePersonaUseCase._create_and_save_persona *)
GetOrCreateCreateAndSave(p) ==
    /\ proc[p].op = "get_or_create" /\ proc[p].pc = "create"
    /\ LET made == _create_default_persona(proc[p].user_id)
           ref == Len(heap) + 1
           h == Append(heap, made.obj)
       IN  IF made.err # NoError
           THEN /\ proc' = [proc EXCEPT ![p] = Raise(p, made.err, "")]
                /\ UNCHANGED <<heap, storage, table>>
           ELSE LET s == save_persona(h, proc[p].user_id, ref)
                IN  /\ heap' = h
                    /\ storage' = s.storage
                    /\ table' = s.table
                    /\ proc' = [proc EXCEPT ![p] =
                           IF s.err # NoError THEN Raise(p, s.err, "save")
                           ELSE Return(p, ref, h, "save")]
    /\ UNCHANGED <<backend, ops, svc, db, direct>>

(* GetPersonaUseCase.execute *)
GetStart(p, user_id) ==
    /\ CanStart(p)
    /\ proc' = [proc EXCEPT ![p] =
           Enter(p, "get", user_id, "", 0,
                 IF user_id = ""
                 THEN "ValueError: User ID must be a non-empty string"
                 ELSE NoError)]
    /\ ops' = ops + 1
    /\ UNCHANGED <<backend, heap, storage, table, svc, db, direct>>

(* Mutant: an absent persona is created with defaults, saved and returned. *)
GetGet_MutCreatesWhenAbsent(p) ==
    /\ proc[p].op = "get" /\ proc[p].pc = "get"
    /\ LET r == get_persona(proc[p].user_id)
           made == _create_default_persona(proc[p].user_id)
           h == Append(r.heap, made.obj)
           s == save_persona(h, proc[p].user_id, Len(h))
       IN  IF r.err = NoError /\ r.ref = None
           THEN /\ heap' = h
                /\ storage' = s.storage
                /\ table' = s.table
                /\ proc' = [proc EXCEPT ![p] = Return(p, Len(h), h, "get")]
           ELSE /\ heap' = r.heap
                /\ proc' = [proc EXCEPT ![p] =
                       IF r.err # NoError THEN Raise(p, r.err, "get")
                       ELSE GotAndReturn(p, r.ref, r.heap)]
                /\ UNCHANGED <<storage, table>>
    /\ UNCHANGED <<backend, ops, svc, db, direct>>

GetGet(p) ==
    /\ proc[p].op = "get" /\ proc[p].pc = "get"
    /\ LET r == get_persona(proc[p].user_id)
       IN  /\ heap' = r.heap
           /\ proc' = [proc EXCEPT ![p] =
                  IF r.err # NoError THEN Raise(p, r.err, "get")
                  ELSE IF r.ref = None
                  THEN Raise(p, "PersonaNotFoundError", "get")
                  ELSE GotAndReturn(p, r.ref, r.heap)]
    /\ UNCHANGED <<backend, storage, table, ops, svc, db, direct>>

----------------------------------------------------------------------------
(* The service called directly, on a persona a caller holds: svc.persona   *)
(* is the object, svc.before the object as it was when the last call was   *)
(* made, svc.err what that call raised and svc.ret whether it returned the *)
(* object it was given.                                                    *)

SvcTraitNameInputs ==
    TraitSet \cup {"user_id", "metadata", "to_dict", "id", "not_a_trait", ""}
SvcValueInputs == {0, 1, 3, 5, 6, NonNumeric}

SvcPersonas ==
    {DomainPersonaObj("u1", o, DEFAULT_TRAIT_VALUE, DEFAULT_TRAIT_VALUE,
                      DEFAULT_TRAIT_VALUE, n) : o \in {1, 3, 5}, n \in {3, 5}}
    \cup
    {LegacyPersonaObj(o, DEFAULT_TRAIT_VALUE, DEFAULT_TRAIT_VALUE,
                      DEFAULT_TRAIT_VALUE, n) : o \in {1, 3, 5}, n \in {3, 5}}

SvcHolding(persona) ==
    [impl |-> "none", persona |-> persona, before |-> persona,
     trait_name |-> "", new_value |-> 0, err |-> NoError, ret |-> "none",
     n |-> 0]

SvcCall(impl, r, trait_name, new_value) ==
    [impl |-> impl, persona |-> r.obj, before |-> svc.persona,
     trait_name |-> trait_name, new_value |-> new_value, err |-> r.err,
     ret |-> IF r.err = NoError THEN "persona" ELSE "none", n |-> svc.n + 1]

SvcUpdateTrait(trait_name, new_value) ==
    /\ svc.n < MaxSvcCalls
    /\ svc' = SvcCall("services", update_trait(svc.persona, trait_name, new_value),
                      trait_name, new_value)
    /\ UNCHANGED <<backend, heap, storage, table, proc, ops, db, direct>>

SvcLegacyUpdateTrait(trait_name, new_value) ==
    /\ svc.n < MaxSvcCalls
    /\ svc' = SvcCall("legacy",
                      legacy_update_trait(svc.persona, trait_name, new_value),
                      trait_name, new_value)
    /\ UNCHANGED <<backend, heap, storage, table, proc, ops, db, direct>>

----------------------------------------------------------------------------
(* The repositories called directly, by two threads.  A call of the       *)
(* in-memory repository takes the lock, runs its body and releases the     *)
(* lock; a call of the relational repository opens a session with its      *)
(* first query and ends it with a commit or a rollback.  rep[p] holds the  *)
(* call's arguments and locals:                                            *)
(*   ret       the reference get_persona returns, result its traits (or    *)
(*             the entries list_personas returns)                          *)
(*   existing  the row _save_or_update_persona found                       *)
(*   txn       "open" while the thread's session has a transaction         *)
(*   raised    the exception raised inside the session block, if any       *)

IdleCall ==
    [op |-> "none", pc |-> "idle", user_id |-> "", persona |-> None,
     err |-> NoError, ret |-> None, result |-> Absent, existing |-> Absent,
     txn |-> "none", raised |-> NoError]

FreeLock == [owner |-> "", count |-> 0]

NoCall == [op |-> "none"]

NoConstruction == [cls |-> "none"]

NoView == [persona |-> None, ret |-> None, calls |-> 0]

(* The objects a caller holds when the repository specifications start:    *)
(* a persona of the domain class, two of the class the relational          *)
(* repository accepts, and the dict that to_dict returned for the first,   *)
(* which is no Persona.                                                    *)
CallerPersonas ==
    <<_create_default_persona("u1").obj,
      NewLegacyPersona(1, DEFAULT_TRAIT_VALUE, DEFAULT_TRAIT_VALUE,
                       DEFAULT_TRAIT_VALUE, DEFAULT_TRAIT_VALUE).obj,
      NewLegacyPersona(DEFAULT_TRAIT_VALUE, DEFAULT_TRAIT_VALUE,
                       DEFAULT_TRAIT_VALUE, DEFAULT_TRAIT_VALUE, 5).obj,
      to_dict(<<_create_default_persona("u1").obj>>, 1).heap[2]>>

PersonaArgs == {None} \cup DOMAIN CallerPersonas

CanCall(p) == rep[p].pc \in {"idle", "done"} /\ ops < MaxOps

(* The call enters: err is what its argument tests raise. *)
Called(op, user_id, persona, err) ==
    [IdleCall EXCEPT !.op = op, !.user_id = user_id, !.persona = persona,
                     !.err = err,
                     !.pc = IF err # NoError THEN "done"
                            ELSE IF backend = "memory" THEN "acquire"
                            ELSE "session"]

RepoGet(p, user_id) ==
    /\ CanCall(p)
    /\ rep' = [rep EXCEPT ![p] =
           Called("get", user_id, None,
                  IF backend = "memory" THEN InMemory_get_persona(user_id).err
                  ELSE NoError)]
    /\ ops' = ops + 1
    /\ UNCHANGED <<backend, heap, storage, table, proc, svc, db, lock, eq, ctor, view>>

RepoSave(p, user_id, ref) ==
    /\ CanCall(p)
    /\ rep' = [rep EXCEPT ![p] =
           Called("save", user_id, ref,
                  IF backend = "memory"
                  THEN InMemory_save_persona(heap, user_id, ref).err
                  ELSE SQLAlchemy_save_arguments(heap, user_id, ref))]
    /\ ops' = ops + 1
    /\ UNCHANGED <<backend, heap, storage, table, proc, svc, db, lock, eq, ctor, view>>

RepoList(p) ==
    /\ CanCall(p)
    /\ rep' = [rep EXCEPT ![p] = Called("list", "", None, NoError)]
    /\ ops' = ops + 1
    /\ UNCHANGED <<backend, heap, storage, table, proc, svc, db, lock, eq, ctor, view>>

(* with self._lock: an RLock, free or already owned by the thread. *)
MemAcquire(p) ==
    /\ backend = "memory" /\ rep[p].pc = "acquire"
    /\ lock.owner \in {"", p}
    /\ lock' = [owner |-> p, count |-> lock.count + 1]
    /\ rep' = [rep EXCEPT ![p].pc = "locked"]
    /\ UNCHANGED <<backend, heap, storage, table, proc, ops, svc, db, eq, ctor, view>>

(* The statement inside the with block. *)
MemBody(p) ==
    /\ backend = "memory" /\ rep[p].pc = "locked"
    /\ storage' = IF rep[p].op = "save"
                  THEN InMemory_save_persona(heap, rep[p].user_id,
                                             rep[p].persona).storage
                  ELSE storage
    /\ rep' = [rep EXCEPT ![p] =
           IF rep[p].op = "get"
           THEN LET ref == InMemory_get_persona(rep[p].user_id).ref
                IN  [rep[p] EXCEPT !.pc = "release", !.ret = ref,
                                   !.result = IF ref = None THEN Absent
                                              ELSE Traits(heap[ref])]
           ELSE IF rep[p].op = "list"
           THEN [rep[p] EXCEPT !.pc = "release",
                               !.result = InMemory_list_personas.list]
           ELSE [rep[p] EXCEPT !.pc = "release"]]
    /\ UNCHANGED <<backend, heap, table, proc, ops, svc, db, lock, eq, ctor, view>>

(* Mutant: the with block is left without releasing the lock. *)
MemRelease_MutKeepsLock(p) ==
    /\ backend = "memory" /\ rep[p].pc = "release"
    /\ rep' = [rep EXCEPT ![p].pc = "done"]
    /\ UNCHANGED <<backend, heap, storage, table, proc, ops, svc, db, lock, eq,
                   ctor, view>>

(* Leaving the with block releases the lock. *)
MemRelease(p) ==
    /\ backend = "memory" /\ rep[p].pc = "release"
    /\ lock' = IF lock.count = 1 THEN FreeLock
               ELSE [lock EXCEPT !.count = @ - 1]
    /\ rep' = [rep EXCEPT ![p].pc = "done"]
    /\ UNCHANGED <<backend, heap, storage, table, proc, ops, svc, db, eq, ctor, view>>

(* Mutant: a session that raised is left with its transaction open. *)
_session_scope_MutLeavesOpenOnError(raised) ==
    IF raised = NoError THEN [err |-> NoError, txn |-> "none"]
    ELSE [err |-> "DatabaseError", txn |-> "open"]

(* _session_scope after the yield: commit when the block raised nothing;   *)
(* rollback and DatabaseError on an SQLAlchemyError; the session is closed *)
(* in every case.  get_persona and save_persona turn any other exception   *)
(* into DatabaseError as well.                                             *)
_session_scope(raised) ==
    IF raised = NoError THEN [err |-> NoError, txn |-> "none"]
    ELSE [err |-> "DatabaseError", txn |-> "none"]

(* The session is opened and the first query of the call runs. *)
SqlSession(p) ==
    /\ backend = "sql" /\ rep[p].pc = "session"
    /\ IF db = "down"
       THEN /\ rep' = [rep EXCEPT ![p] =
                   [rep[p] EXCEPT !.pc = "done", !.raised = "OperationalError",
                        !.err = _session_scope("OperationalError").err,
                        !.txn = _session_scope("OperationalError").txn]]
            /\ UNCHANGED heap
       ELSE IF rep[p].op = "get"
       THEN LET r == SQLAlchemy_get_persona(rep[p].user_id)
            IN  /\ heap' = r.heap
                /\ rep' = [rep EXCEPT ![p] =
                       IF r.err # NoError
                       THEN [rep[p] EXCEPT !.pc = "done", !.raised = r.err,
                                !.err = _session_scope(r.err).err,
                                !.txn = _session_scope(r.err).txn]
                       ELSE [rep[p] EXCEPT !.pc = "commit", !.txn = "open",
                                !.ret = r.ref,
                                !.result = IF r.ref = None THEN Absent
                                           ELSE Traits(r.heap[r.ref])]]
       ELSE IF rep[p].op = "list"
       THEN LET r == SQLAlchemy_list_personas
            IN  /\ rep' = [rep EXCEPT ![p] =
                       IF r.err # NoError
                       THEN [rep[p] EXCEPT !.pc = "done", !.raised = r.err,
                                !.err = _session_scope(r.err).err,
                                !.txn = _session_scope(r.err).txn]
                       ELSE [rep[p] EXCEPT !.pc = "commit", !.txn = "open",
                                !.result = r.list]]
                /\ UNCHANGED heap
       ELSE /\ rep' = [rep EXCEPT ![p] =
                   [rep[p] EXCEPT !.pc = "write", !.txn = "open",
                        !.existing = first(filter_by(table, rep[p].user_id))]]
            /\ UNCHANGED heap
    /\ UNCHANGED <<backend, storage, table, proc, ops, svc, db, lock, eq, ctor, view>>

(* The update or insert of save_persona and the commit that follows it. *)
SqlWriteAndCommit(p) ==
    /\ backend = "sql" /\ rep[p].pc = "write"
    /\ LET r == IF db = "down"
                THEN [err |-> "OperationalError", table |-> table]
                ELSE _save_or_update_persona(rep[p].existing, rep[p].user_id,
                         _persona_to_dict(heap[rep[p].persona]))
       IN  /\ table' = r.table
           /\ rep' = [rep EXCEPT ![p] =
                  [rep[p] EXCEPT !.pc = "done", !.raised = r.err,
                       !.err = _session_scope(r.err).err,
                       !.txn = _session_scope(r.err).txn]]
    /\ UNCHANGED <<backend, heap, storage, proc, ops, svc, db, lock, eq, ctor, view>>

(* The commit that ends the session of a get_persona or list_personas. *)
SqlCommit(p) ==
    /\ backend = "sql" /\ rep[p].pc = "commit"
    /\ LET raised == IF db = "down" THEN "OperationalError" ELSE NoError
       IN  rep' = [rep EXCEPT ![p] =
               [rep[p] EXCEPT !.pc = "done", !.raised = raised,
                    !.err = _session_scope(raised).err,
                    !.txn = _session_scope(raised).txn,
                    !.ret = IF raised = NoError THEN @ ELSE None,
                    !.result = IF raised = NoError THEN @ ELSE Absent]]
    /\ UNCHANGED <<backend, heap, storage, table, proc, ops, svc, db, lock, eq,
                   ctor, view>>

(* The database stops answering, and answers again. *)
DbDown ==
    /\ backend = "sql" /\ db = "up"
    /\ db' = "down"
    /\ UNCHANGED <<backend, heap, storage, table, proc, ops, svc, direct>>

DbUp ==
    /\ backend = "sql" /\ db = "down"
    /\ db' = "up"
    /\ UNCHANGED <<backend, heap, storage, table, proc, ops, svc, direct>>

----------------------------------------------------------------------------
(* One caller making the same call on both repositories: eq.mem is what    *)
(* the in-memory repository answers, eq.sql what the relational one does.  *)
(* An answer is the class of the exception raised (NoError if none) and    *)
(* the value returned: the traits of the persona or Absent for None, the   *)
(* entries of the list.                                                    *)

ErrorClass(err) == IF IsValueError(err) THEN "ValueError" ELSE err

Answer(err, value) ==
    [err |-> ErrorClass(err), value |-> IF err = NoError THEN value ELSE Absent]

GetAnswer(r) ==
    Answer(r.err, IF r.ref = None THEN Absent ELSE Traits(r.heap[r.ref]))

BothGet(user_id) ==
    /\ ops < MaxOps
    /\ LET m == InMemory_get_persona(user_id)
           q == SQLAlchemy_get_persona(user_id)
       IN  /\ heap' = q.heap
           /\ eq' = [op |-> "get", user_id |-> user_id, persona |-> None,
                     mem |-> GetAnswer(m), sql |-> GetAnswer(q)]
    /\ ops' = ops + 1
    /\ UNCHANGED <<backend, storage, table, proc, svc, db, rep, lock, ctor, view>>

BothSave(user_id, ref) ==
    /\ ops < MaxOps
    /\ LET m == InMemory_save_persona(heap, user_id, ref)
           q == SQLAlchemy_save_persona(heap, user_id, ref)
       IN  /\ storage' = m.storage
           /\ table' = q.table
           /\ eq' = [op |-> "save", user_id |-> user_id, persona |-> ref,
                     mem |-> Answer(m.err, Absent),
                     sql |-> Answer(q.err, Absent)]
    /\ ops' = ops + 1
    /\ UNCHANGED <<backend, heap, proc, svc, db, rep, lock, ctor, view>>

BothList ==
    /\ ops < MaxOps
    /\ eq' = [op |-> "list", user_id |-> "", persona |-> None,
              mem |-> Answer(InMemory_list_personas.err,
                             InMemory_list_personas.list),
              sql |-> Answer(SQLAlchemy_list_personas.err,
                             SQLAlchemy_list_personas.list)]
    /\ ops' = ops + 1
    /\ UNCHANGED <<backend, heap, storage, table, proc, svc, db, rep, lock,
                   ctor, view>>

----------------------------------------------------------------------------
(* Persona constructed directly: ctor.args are the five trait arguments,   *)
(* ctor.err what the constructor raised and ctor.invalid the traits its    *)
(* message names.                                                          *)

CtorValueInputs == {0, 1, 3, 5, 6, NonNumeric}

CtorArguments == [TraitSet -> CtorValueInputs]

Constructed(cls, made) ==
    [cls |-> cls, args |-> ctor.args, err |-> made.err,
     invalid |-> validate_ranges(made.obj).invalid]

ConstructDomain ==
    /\ ctor.cls = "none"
    /\ ctor' = Constructed("domain",
                   NewDomainPersona("u1", ctor.args["openness"],
                                    ctor.args["conscientiousness"],
                                    ctor.args["extraversion"],
                                    ctor.args["agreeableness"],
                                    ctor.args["neuroticism"]))
    /\ UNCHANGED <<backend, heap, storage, table, proc, ops, svc, db, rep, lock,
                   eq, view>>

ConstructLegacy ==
    /\ ctor.cls = "none"
    /\ ctor' = Constructed("legacy",
                   NewLegacyPersona(ctor.args["openness"],
                                    ctor.args["conscientiousness"],
                                    ctor.args["extraversion"],
                                    ctor.args["agreeableness"],
                                    ctor.args["neuroticism"]))
    /\ UNCHANGED <<backend, heap, storage, table, proc, ops, svc, db, rep, lock,
                   eq, view>>

----------------------------------------------------------------------------
(* to_dict called by a caller that holds a persona, and the caller writing *)
(* into a record it was handed: view.persona is the persona, view.ret the  *)
(* record the last to_dict returned.                                       *)

DictItemInputs ==
    ({"user_id"} \X {"u2"}) \cup ({"openness", "neuroticism"} \X {1, 6})

ToDict ==
    /\ view.calls < MaxDictCalls
    /\ LET r == to_dict(heap, view.persona)
       IN  /\ heap' = r.heap
           /\ view' = [view EXCEPT !.ret = r.ref, !.calls = @ + 1]
    /\ UNCHANGED <<backend, storage, table, proc, ops, svc, db, rep, lock, eq,
                   ctor>>

(* The caller assigns an item of some record to_dict returned. *)
DictSetItem(ref, key, value) ==
    /\ ref \in DOMAIN heap
    /\ ref = view.ret \/ heap[ref].cls = "dict"
    /\ key \in DOMAIN heap[ref]
    /\ heap' = setitem(heap, ref, key, value)
    /\ UNCHANGED <<backend, storage, table, proc, ops, svc, db, rep, lock, eq,
                   ctor, view>>

----------------------------------------------------------------------------
(* Specifications *)

NoRows == <<>>

DefaultRow == [t \in TraitSet |-> DEFAULT_TRAIT_VALUE]

(* A Store starts empty, or holding for u1 the record that a finished      *)
(* GetOrCreate("u1") leaves: the in-memory Store the default object that   *)
(* call created, the relational Store a row of defaults.                   *)
InitStores ==
    {[backend |-> "memory", heap |-> <<>>,
      storage |-> <<>>, table |-> NoRows],
     [backend |-> "memory", heap |-> <<_create_default_persona("u1").obj>>,
      storage |-> << <<"u1", 1>> >>,
      table |-> NoRows],
     [backend |-> "sql", heap |-> <<>>,
      storage |-> <<>>, table |-> NoRows],
     [backend |-> "sql", heap |-> <<>>,
      storage |-> <<>>,
      table |-> <<Row("u1", DefaultRow)>>]}

(* The relational Store, whose table outlives the process, holding rows    *)
(* for both user ids.                                                      *)
TwoRowStore ==
    [backend |-> "sql", heap |-> <<>>,
     storage |-> <<>>,
     table |-> <<Row("u1", DefaultRow),
                 Row("u2", [DefaultRow EXCEPT !["openness"] = MAX_TRAIT_VALUE])>>]

Init ==
    /\ \E s \in InitStores \cup {TwoRowStore} :
           /\ backend = s.backend
           /\ heap = s.heap
           /\ storage = s.storage
           /\ table = s.table
    /\ proc = [p \in Procs |-> IdleProc]
    /\ ops = 0
    /\ svc = SvcHolding(<<>>)
    /\ db = "up"
    /\ rep = [p \in Procs |-> IdleCall]
    /\ lock = FreeLock
    /\ eq = NoCall
    /\ ctor = NoConstruction
    /\ view = NoView

Step(p, users, trait_names, legacy_trait_names, values) ==
    \/ \E u \in users, t \in trait_names, v \in values :
           UpdateStart(p, u, t, v)
    \/ \E u \in users, t \in legacy_trait_names, v \in values :
           LegacyUpdateStart(p, u, t, v)
    \/ UpdateGet(p)
    \/ UpdateMutate(p)
    \/ UpdateSave(p)
    \/ UpdateReget(p)
    \/ \E u \in users : GetOrCreateStart(p, u)
    \/ GetOrCreateGet(p)
    \/ GetOrCreateCreateAndSave(p)
    \/ \E u \in users : GetStart(p, u)
    \/ GetGet(p)

Next ==
    \E p \in Procs :
        Step(p, ConcUserIds, ConcTraitNames, ConcLegacyTraitNames, ConcValues)

Spec == Init /\ [][Next]_vars

(* One caller: only thread t1 runs. *)
SeqNext ==
    Step("t1", UserIdInputs, TraitNameInputs, TraitNameInputs, ValueInputs)

SeqSpec == Init /\ [][SeqNext]_vars

(* One caller, and a database that may stop answering at any moment. *)
FaultNext ==
    \/ Step("t1", ConcUserIds, ConcTraitNames, ConcLegacyTraitNames, ConcValues)
    \/ DbDown
    \/ DbUp

FaultSpec == Init /\ [][FaultNext]_vars

SvcInit ==
    /\ backend = "memory"
    /\ heap = <<>>
    /\ storage = <<>>
    /\ table = NoRows
    /\ proc = [p \in Procs |-> IdleProc]
    /\ ops = 0
    /\ svc \in {SvcHolding(persona) : persona \in SvcPersonas}
    /\ db = "up"
    /\ rep = [p \in Procs |-> IdleCall]
    /\ lock = FreeLock
    /\ eq = NoCall
    /\ ctor = NoConstruction
    /\ view = NoView

SvcNext ==
    \E t \in SvcTraitNameInputs, v \in SvcValueInputs :
        \/ SvcUpdateTrait(t, v)
        \/ SvcLegacyUpdateTrait(t, v)

SvcSpec == SvcInit /\ [][SvcNext]_vars

(* The repositories called directly by two threads, each Store empty or    *)
(* holding a record for u1.                                                *)
RepoInit ==
    /\ \E s \in InitStores :
           /\ backend = s.backend
           /\ heap = CallerPersonas \o s.heap
           /\ storage = [i \in DOMAIN s.storage |->
                            <<s.storage[i][1], s.storage[i][2] + Len(CallerPersonas)>>]
           /\ table = s.table
    /\ proc = [p \in Procs |-> IdleProc]
    /\ ops = 0
    /\ svc = SvcHolding(<<>>)
    /\ db = "up"
    /\ rep = [p \in Procs |-> IdleCall]
    /\ lock = FreeLock
    /\ eq = NoCall
    /\ ctor = NoConstruction
    /\ view = NoView

RepoStep(p) ==
    \/ \E u \in UserIdInputs : RepoGet(p, u)
    \/ \E u \in UserIdInputs, ref \in PersonaArgs : RepoSave(p, u, ref)
    \/ RepoList(p)
    \/ MemAcquire(p)
    \/ MemBody(p)
    \/ MemRelease(p)
    \/ SqlSession(p)
    \/ SqlWriteAndCommit(p)
    \/ SqlCommit(p)

RepoNext ==
    \/ \E p \in Procs : RepoStep(p)
    \/ DbDown
    \/ DbUp

RepoSpec == RepoInit /\ [][RepoNext]_vars

(* A thread that can take a step of its in-memory repository call is       *)
(* scheduled in the end.                                                   *)
RepoLiveSpec ==
    /\ RepoInit /\ [][RepoNext]_vars
    /\ \A p \in Procs :
           /\ WF_vars(MemAcquire(p))
           /\ WF_vars(MemBody(p))
           /\ WF_vars(MemRelease(p))

(* A Persona of either class constructed from any five arguments. *)
CtorInit ==
    /\ backend = "memory"
    /\ heap = <<>>
    /\ storage = <<>>
    /\ table = NoRows
    /\ proc = [p \in Procs |-> IdleProc]
    /\ ops = 0
    /\ svc = SvcHolding(<<>>)
    /\ db = "up"
    /\ rep = [p \in Procs |-> IdleCall]
    /\ lock = FreeLock
    /\ eq = NoCall
    /\ ctor \in {[cls |-> "none", args |-> a] : a \in CtorArguments}
    /\ view = NoView

CtorNext ==
    \/ ConstructDomain
    \/ ConstructLegacy

CtorSpec == CtorInit /\ [][CtorNext]_vars

(* Both repositories empty, one caller. *)
EquivInit ==
    /\ backend = "memory"
    /\ heap = CallerPersonas
    /\ storage = <<>>
    /\ table = NoRows
    /\ proc = [p \in Procs |-> IdleProc]
    /\ ops = 0
    /\ svc = SvcHolding(<<>>)
    /\ db = "up"
    /\ rep = [p \in Procs |-> IdleCall]
    /\ lock = FreeLock
    /\ eq = NoCall
    /\ ctor = NoConstruction
    /\ view = NoView

EquivNext ==
    \/ \E u \in UserIdInputs : BothGet(u)
    \/ \E u \in UserIdInputs, ref \in PersonaArgs : BothSave(u, ref)
    \/ BothList

EquivSpec == EquivInit /\ [][EquivNext]_vars

(* The concurrent use cases from the moment at which thread t1, running    *)
(* GetOrCreate("u1") on an empty Store, has been told by get_persona that  *)
(* u1 has no record and has not yet created one; ops counts the            *)
(* invocations started after that moment.                                  *)
RaceInit ==
    /\ backend \in {"memory", "sql"}
    /\ heap = <<>>
    /\ storage = <<>>
    /\ table = NoRows
    /\ proc = [p \in Procs |->
                  IF p = "t1"
                  THEN [IdleProc EXCEPT !.op = "get_or_create", !.pc = "create",
                                        !.user_id = "u1", !.calls = <<"get">>,
                                        !.prev = Summary(IdleProc)]
                  ELSE IdleProc]
    /\ ops = 0
    /\ svc = SvcHolding(<<>>)
    /\ db = "up"
    /\ rep = [p \in Procs |-> IdleCall]
    /\ lock = FreeLock
    /\ eq = NoCall
    /\ ctor = NoConstruction
    /\ view = NoView

RaceSpec == RaceInit /\ [][Next]_vars

(* A caller that holds one persona of either class. *)
DictInit ==
    /\ backend = "memory"
    /\ \E persona \in SvcPersonas : heap = <<persona>>
    /\ storage = <<>>
    /\ table = NoRows
    /\ proc = [p \in Procs |-> IdleProc]
    /\ ops = 0
    /\ svc = SvcHolding(<<>>)
    /\ db = "up"
    /\ rep = [p \in Procs |-> IdleCall]
    /\ lock = FreeLock
    /\ eq = NoCall
    /\ ctor = NoConstruction
    /\ view = [persona |-> 1, ret |-> None, calls |-> 0]

DictNext ==
    \/ ToDict
    \/ \E ref \in DOMAIN heap, item \in DictItemInputs :
           DictSetItem(ref, item[1], item[2])

DictSpec == DictInit /\ [][DictNext]_vars

----------------------------------------------------------------------------
(* Properties *)

TraitsInRange(traits) == \A t \in TraitSet : InRange(traits[t])

Done(p) == proc[p].pc = "done"
Succeeded(p) == Done(p) /\ proc[p].err = NoError
Failed(p) == Done(p) /\ proc[p].err # NoError

(* C1: in every reachable state, under any interleaving of Get-Or-Create,  *)
(* Get and Update invocations (failing ones included), every record the    *)
(* Store holds and every persona a use case returned has all five traits   *)
(* in [MIN_TRAIT_VALUE, MAX_TRAIT_VALUE].                                  *)
C1_StoredAndReturnedInRange ==
    /\ \A u \in UserIds :
           StoreView(u) # Absent => TraitsInRange(StoreView(u))
    /\ \A p \in Procs :
           (Succeeded(p) /\ proc[p].ret # None) => TraitsInRange(proc[p].result)

SvcCalled == svc.n > 0

RangeViolationErrors == {"PersonaValidationError", "TraitValidationError"}

(* C2: after update_trait(persona, t, v) with t one of the five traits and *)
(* v a number outside [1, 5], the call has failed with the range-violation *)
(* error and all five traits have the values they had before the call.     *)
C2_RangeViolationRestoresTrait ==
    (/\ SvcCalled
     /\ svc.trait_name \in TraitSet
     /\ IsNumber(svc.new_value) /\ ~InRange(svc.new_value))
    => /\ svc.err \in RangeViolationErrors
       /\ Traits(svc.persona) = Traits(svc.before)

(* C3: after update_trait with a name that is not one of the five trait    *)
(* names (names of other attributes of the object included), the call has  *)
(* failed with TraitNotFoundError and the object is as it was.             *)
C3_UnknownTraitRejectedUntouched ==
    (SvcCalled /\ svc.trait_name \notin TraitSet)
    => /\ svc.err = "TraitNotFoundError"
       /\ svc.persona = svc.before

(* C4: after update_trait(persona, t, v) with t one of the five traits and *)
(* v in [1, 5], the call has returned the object it was given, trait t is  *)
(* v and the other four traits have the values they had before the call.   *)
C4_ValidUpdateChangesOneTrait ==
    (/\ SvcCalled
     /\ svc.trait_name \in TraitSet
     /\ IsNumber(svc.new_value) /\ InRange(svc.new_value))
    => /\ svc.err = NoError
       /\ svc.ret = "persona"
       /\ svc.persona[svc.trait_name] = svc.new_value
       /\ \A t \in TraitSet \ {svc.trait_name} :
              svc.persona[t] = svc.before[t]

(* C5: (a) a successful save of Update writes the saving thread's whole    *)
(* in-memory persona over the record, so that whatever another thread      *)
(* saved since this thread's read is discarded; (b) the lost update is     *)
(* reached (C5_LostUpdateReached).                                         *)
C5_SaveOverwritesWholeRecord ==
    [][\A p \in Procs :
          (IsUpdate(p) /\ proc[p].pc = "save" /\ proc'[p].pc # "save"
           /\ proc'[p].err = NoError)
          => StoreView(proc[p].user_id)' = Traits(heap[proc[p].persona])]_vars

LostUpdate(winner, loser) ==
    /\ Succeeded(winner) /\ Succeeded(loser)
    /\ proc[winner].op = "update" /\ proc[loser].op = "update"
    /\ proc[winner].user_id = proc[loser].user_id
    /\ proc[winner].trait_name # proc[loser].trait_name
    /\ proc[winner].read = proc[loser].read
    /\ proc[loser].new_value # proc[loser].read[proc[loser].trait_name]
    /\ LET held == StoreView(proc[winner].user_id)
       IN  /\ held[proc[winner].trait_name] = proc[winner].new_value
           /\ held[proc[loser].trait_name] = proc[loser].read[proc[loser].trait_name]

C5_LostUpdateReached == \E w, l \in Procs : w # l /\ LostUpdate(w, l)

ServiceErrors == {"TraitNotFoundError"} \cup RangeViolationErrors

ServiceFailedIn(p) ==
    /\ Failed(p) /\ IsUpdate(p)
    /\ proc[p].calls # <<>>
    /\ proc[p].calls[Len(proc[p].calls)] = "update_trait"

(* C6: with one caller, when the service call fails inside Update, the use *)
(* case has made no save call, the service's own error (trait not found or *)
(* range violation) is what left execute(), and the Store holds for that   *)
(* user id what it held when Update read it.                               *)
C6_FailedMutationLeavesStore ==
    \A p \in Procs :
        ServiceFailedIn(p)
        => /\ \A i \in 1..Len(proc[p].calls) : proc[p].calls[i] # "save"
           /\ proc[p].err \in ServiceErrors
           /\ StoreView(proc[p].user_id) = proc[p].read

(* C7: the step with which an Update returns is the read-back: by then it  *)
(* has called get, update_trait, save and get, in that order, and what it  *)
(* returns is what the Store holds at that second get.                     *)
C7_ReturnsReadBack ==
    [][\A p \in Procs :
          (IsUpdate(p) /\ ~Done(p) /\ Succeeded(p)')
          => /\ proc'[p].calls = <<"get", "update_trait", "save", "get">>
             /\ proc'[p].result = StoreView(proc[p].user_id)']_vars

(* An Update has returned a record that differs from the object it mutated *)
(* and saved: another thread's save came before its read-back.             *)
C7_ReadBackDiffersFromMutated ==
    \E p \in Procs :
        /\ Succeeded(p) /\ proc[p].op = "update"
        /\ proc[p].ret # proc[p].persona
        /\ proc[p].result # Traits(heap[proc[p].persona])

FoundAbsent(inv) == inv.calls # <<>> /\ inv.calls[1] = "get" /\ inv.read = Absent

(* C8: with one caller, an Update whose get found no record has failed     *)
(* with PersonaNotFoundError after that one call (no service call, no      *)
(* save), and the Store still has no record for the user id.               *)
C8_UpdateAbsentFailsNotFound ==
    \A p \in Procs :
        (Done(p) /\ IsUpdate(p) /\ FoundAbsent(proc[p]))
        => /\ proc[p].err = "PersonaNotFoundError"
           /\ proc[p].calls = <<"get">>
           /\ StoreView(proc[p].user_id) = Absent

(* C9: with one caller, a successful Update(user_id, t, v) returns trait t *)
(* equal to v and the other four traits as the Store held them before, and *)
(* a Get for the same user id made next returns the same five values.      *)
C9_UpdateThenGetRoundTrip ==
    \A p \in Procs :
        /\ (Succeeded(p) /\ proc[p].op = "update")
           => /\ proc[p].result[proc[p].trait_name] = proc[p].new_value
              /\ \A t \in TraitSet \ {proc[p].trait_name} :
                     proc[p].result[t] = proc[p].read[t]
        /\ (/\ Done(p) /\ proc[p].op = "get"
            /\ proc[p].prev.op = "update" /\ proc[p].prev.err = NoError
            /\ proc[p].prev.user_id = proc[p].user_id)
           => /\ proc[p].err = NoError
              /\ proc[p].result = proc[p].prev.result

C9_RoundTripOnTable ==
    \E p \in Procs :
        /\ backend = "sql"
        /\ Succeeded(p) /\ proc[p].op = "get"
        /\ proc[p].prev.op = "update" /\ proc[p].prev.err = NoError
        /\ proc[p].prev.user_id = proc[p].user_id
        /\ proc[p].result # DefaultRow

(* C10: with one caller, when Get-Or-Create has run twice in a row for a   *)
(* user id that had no record, both calls returned a persona with all five *)
(* traits 3.0, the first made a save call and the second did not, and the  *)
(* Store holds a record for the user id.                                   *)
C10_GetOrCreateTwice ==
    \A p \in Procs :
        (/\ Done(p) /\ proc[p].op = "get_or_create"
         /\ proc[p].prev.op = "get_or_create"
         /\ proc[p].prev.user_id = proc[p].user_id
         /\ FoundAbsent(proc[p].prev))
        => /\ proc[p].prev.err = NoError /\ proc[p].err = NoError
           /\ proc[p].prev.result = DefaultRow /\ proc[p].result = DefaultRow
           /\ proc[p].prev.calls = <<"get", "save">>
           /\ proc[p].calls = <<"get">>
           /\ StoreView(proc[p].user_id) = DefaultRow

(* The user ids the Store holds a record for. *)
RecordIds == {u \in UserIds : StoreView(u) # Absent}

(* The step p takes is the Store call of its Get. *)
GetCalls(p) ==
    proc[p].op = "get" /\ proc[p].pc = "get" /\ proc'[p] # proc[p]

(* C11: the Store call of a Get leaves the set of user ids with a record   *)
(* as it was and is the only call the Get makes (no save); when the Store  *)
(* has no record for the user id, the Get fails with PersonaNotFoundError. *)
C11_GetAbsentFailsCreatesNothing ==
    [][\A p \in Procs :
          GetCalls(p)
          => /\ RecordIds' = RecordIds
             /\ proc'[p].pc = "done"
             /\ proc'[p].calls = <<"get">>
             /\ StoreView(proc[p].user_id) = Absent
                => proc'[p].err = "PersonaNotFoundError"]_vars

C11_GetFailedNotFound ==
    \E p \in Procs :
        /\ Failed(p) /\ proc[p].op = "get"
        /\ proc[p].err = "PersonaNotFoundError"
        /\ proc[p].calls = <<"get">>
        /\ StoreView(proc[p].user_id) = Absent

(* The step p takes belongs to its Get-Or-Create (the get, or the creation *)
(* and save that follows a get that found nothing).                        *)
GetOrCreateSteps(p) ==
    /\ proc[p].op = "get_or_create" /\ proc[p].pc \in {"get", "create"}
    /\ proc'[p] # proc[p]

(* C12: a Get-Or-Create whose get finds a record returns that record's     *)
(* five traits at once, with the Store unchanged and no save call; the     *)
(* step after a get that found nothing saves a persona with all five       *)
(* traits 3.0 under the user id and returns it.                            *)
C12_GetOrCreateReturnsOrCreates ==
    [][\A p \in Procs :
          GetOrCreateSteps(p)
          => /\ (proc[p].pc = "get" /\ StoreView(proc[p].user_id) # Absent)
                => /\ Succeeded(p)'
                   /\ proc'[p].result = StoreView(proc[p].user_id)
                   /\ proc'[p].calls = <<"get">>
                   /\ \A u \in UserIds : StoreView(u)' = StoreView(u)
             /\ (proc[p].pc = "get" /\ StoreView(proc[p].user_id) = Absent)
                => /\ proc'[p].pc = "create"
                   /\ \A u \in UserIds : StoreView(u)' = StoreView(u)
             /\ proc[p].pc = "create"
                => /\ Succeeded(p)'
                   /\ proc'[p].result = DefaultRow
                   /\ proc'[p].calls = <<"get", "save">>
                   /\ StoreView(proc[p].user_id)' = DefaultRow]_vars

InvalidArguments(inv) ==
    \/ inv.user_id = ""
    \/ /\ inv.op \in {"update", "legacy_update"}
       /\ inv.trait_name = "" \/ ~IsNumber(inv.new_value)

InvalidArgumentErrors ==
    {"ValueError: User ID cannot be empty",
     "ValueError: Trait name cannot be empty",
     "ValueError: Trait value must be a number",
     "ValueError: User ID must be a non-empty string"}

(* C13: an invocation of Get-Or-Create, Get or Update entered with an      *)
(* invalid argument is over in the step that enters it: it has failed with *)
(* a ValueError of the argument checks, has made no Store or service call, *)
(* and the step leaves both Stores and every object as they were.          *)
C13_InvalidArgumentBeforeStore ==
    [][\A p \in Procs :
          (proc'[p] # proc[p] /\ proc[p].pc \in {"idle", "done"}
           /\ InvalidArguments(proc'[p]))
          => /\ proc'[p].pc = "done"
             /\ proc'[p].err \in InvalidArgumentErrors
             /\ proc'[p].calls = <<>>
             /\ UNCHANGED <<heap, storage, table>>]_vars

C13_NonNumericValueRejected ==
    \E p \in Procs :
        /\ Done(p) /\ proc[p].op = "update"
        /\ proc[p].user_id # "" /\ proc[p].trait_name # ""
        /\ ~IsNumber(proc[p].new_value)
        /\ proc[p].err = "ValueError: Trait value must be a number"
        /\ proc[p].calls = <<>>

RecordCount == IF backend = "memory" THEN Len(storage) ELSE Len(table)

(* The step with which p's save_persona writes and succeeds. *)
SaveSucceeds(p) ==
    /\ rep[p].op = "save" /\ rep[p].pc \in {"locked", "write"}
    /\ rep'[p].pc # rep[p].pc /\ rep'[p].err = NoError

(* C14: the step with which a save_persona(user_id, persona) succeeds      *)
(* leaves the Store reporting the persona's five traits for user_id, one   *)
(* record more than before if it reported none for user_id and as many as  *)
(* before otherwise, and what it reports for the other user ids unchanged. *)
C14_SaveIsUpsert ==
    [][\A p \in Procs :
          SaveSucceeds(p)
          => /\ StoreView(rep[p].user_id)' = Traits(heap[rep[p].persona])
             /\ RecordCount' = RecordCount
                    + (IF StoreView(rep[p].user_id) = Absent THEN 1 ELSE 0)
             /\ \A u \in UserIds \ {rep[p].user_id} :
                    StoreView(u)' = StoreView(u)]_vars

C14_OverwroteExistingRow ==
    \E p \in Procs :
        /\ backend = "sql"
        /\ rep[p].op = "save" /\ rep[p].pc = "done" /\ rep[p].err = NoError
        /\ rep[p].existing # Absent
        /\ Traits(rep[p].existing) # Traits(heap[rep[p].persona])
        /\ StoreView(rep[p].user_id) = Traits(heap[rep[p].persona])

(* C15: no user id has two items in the in-memory repository's dict or two *)
(* rows in the personas table.                                             *)
C15_OneRecordPerUser ==
    \A u \in UserIdInputs :
        /\ Cardinality({i \in DOMAIN storage : storage[i][1] = u}) <= 1
        /\ Len(filter_by(table, u)) <= 1

(* Two saves for a user id without a row both found no row; one inserted,  *)
(* the other's insert was refused by the primary key.                      *)
C15_SecondInsertRefused ==
    \E p, q \in Procs :
        /\ p # q
        /\ rep[p].op = "save" /\ rep[q].op = "save"
        /\ rep[p].user_id = rep[q].user_id
        /\ rep[p].pc = "done" /\ rep[q].pc = "done"
        /\ rep[p].existing = Absent /\ rep[q].existing = Absent
        /\ rep[p].err = NoError
        /\ rep[q].raised = "IntegrityError"
        /\ Len(filter_by(table, rep[p].user_id)) = 1

(* C16: after every call one caller makes on both repositories, the two    *)
(* have answered alike: the same class of exception or none, and the same  *)
(* value (traits or absence for get, entries for list).                    *)
C16_BackendsAnswerAlike ==
    eq.op # "none" => eq.mem = eq.sql

(* What reaches the caller of Update when a Store call failed: the         *)
(* repository's DatabaseError from usecases/, the RuntimeError that        *)
(* application/ wraps it in.                                               *)
StoreErrors == {"DatabaseError", "RuntimeError"}

(* p's Update makes a Store call and the database does not answer. *)
StoreCallFails(p) ==
    /\ IsUpdate(p) /\ proc[p].pc \in {"get", "save", "reget"}
    /\ proc'[p] # proc[p]
    /\ backend = "sql" /\ db = "down"

LockGuardsBody ==
    \A p \in Procs :
        /\ rep[p].pc \in {"locked", "release"} => lock.owner = p
        /\ rep[p].pc \in {"idle", "acquire", "done"} => lock.owner # p

(* C18: the dict is read and written only by the thread that holds the     *)
(* lock, a waiting thread holds no lock, and every call of the in-memory   *)
(* repository that has reached the lock completes with the lock released.  *)
C18_LockNeverDeadlocks ==
    /\ []LockGuardsBody
    /\ \A p \in Procs :
           (backend = "memory" /\ rep[p].pc = "acquire")
               ~> (rep[p].pc = "done" /\ lock.owner # p)

(* A thread waits for the lock that the other thread holds. *)
C18_WaitingForLock ==
    \E p, q \in Procs :
        /\ rep[p].pc = "acquire"
        /\ rep[q].pc \in {"locked", "release"}
        /\ lock.owner = q

(* The step with which p's save_persona commits. *)
SaveCommits(p) ==
    /\ rep[p].op = "save" /\ rep[p].pc = "write"
    /\ rep'[p].pc = "done" /\ rep'[p].err = NoError

(* C19: a thread has a transaction open only inside a repository call,     *)
(* between the call's first query and its commit or rollback, and the      *)
(* table changes only in the step that commits a save: a get, a list and a *)
(* save that fails leave it as it was.                                     *)
C19_TransactionPerCall ==
    [][/\ \A p \in Procs :
             /\ rep'[p].txn = "open" => rep'[p].pc \in {"write", "commit"}
             /\ rep'[p].pc \in {"idle", "done"} => rep'[p].txn = "none"
       /\ table' # table => \E p \in Procs : SaveCommits(p)]_vars

(* A save whose write failed after its session had read the table: the     *)
(* transaction is closed and the row is as the session found it.           *)
C19_FailedSaveLeftTable ==
    \E p \in Procs :
        /\ rep[p].op = "save" /\ rep[p].pc = "done"
        /\ rep[p].raised = "OperationalError"
        /\ rep[p].err = "DatabaseError"
        /\ rep[p].existing # Absent
        /\ rep[p].txn = "none"
        /\ first(filter_by(table, rep[p].user_id)) = rep[p].existing

(* The traits whose argument is no number in [1, 5]. *)
InvalidArgumentTraits(args) ==
    {t \in TraitSet : ~IsNumber(args[t]) \/ ~InRange(args[t])}

(* C20: a construction raises nothing exactly when all five arguments are  *)
(* numbers in [1, 5]; otherwise it raises PersonaValidationError and the   *)
(* traits its message names are exactly those with an invalid argument.    *)
C20_ConstructionValidates ==
    ctor.cls # "none"
    => /\ ctor.err = NoError <=> InvalidArgumentTraits(ctor.args) = {}
       /\ ctor.err # NoError
          => /\ ctor.err = "PersonaValidationError"
             /\ {ctor.invalid[i] : i \in DOMAIN ctor.invalid}
                    = InvalidArgumentTraits(ctor.args)


(* C21: the record to_dict returns shares no state with the persona: a     *)
(* step that writes into a returned record leaves the persona's attributes *)
(* as they were, and the record a to_dict call returns holds, key by key,  *)
(* the persona's own attribute values, whatever was written into records   *)
(* returned before.                                                        *)
C21_ToDictIsProjection ==
    [][/\ heap'[view.persona] = heap[view.persona]
       /\ view'.calls # view.calls
          => /\ DOMAIN heap'[view'.ret]
                    = DictKeys(heap[view.persona].cls) \cup {"cls"}
             /\ \A k \in DictKeys(heap[view.persona].cls) :
                    heap'[view'.ret][k] = heap[view.persona][k]]_vars

(* A first record was written into and a second to_dict returned the       *)
(* persona's values. *)
C21_WroteIntoReturnedRecord ==
    /\ view.calls = 2
    /\ \E k \in DictKeys(heap[view.persona].cls) :
           heap[2][k] # heap[view.persona][k]
    /\ \A k \in DictKeys(heap[view.persona].cls) :
           heap[view.ret][k] = heap[view.persona][k]


(* A step in which thread p's invocation made a get_persona call. *)
MadeGet(p) ==
    /\ proc[p].pc \in {"get", "reget"}
    /\ proc'[p] # proc[p]

(* C22: record existence is monotonic: no step of a GetOrCreate, Get or   *)
(* Update, in any interleaving, takes a user id's record out of the Store, *)
(* and a get_persona call for a user id that has a record returns a        *)
(* persona, never absent.                                                  *)
C22_RecordsNeverRemoved ==
    [][/\ \A u \in UserIds :
              StoreView(u) # Absent => StoreView(u)' # Absent
       /\ \A p \in Procs :
              MadeGet(p) /\ StoreView(proc[p].user_id) # Absent
              => /\ proc'[p].err = NoError
                 /\ proc'[p].pc = "done" => proc'[p].ret # None
                 /\ proc'[p].pc # "done" => proc'[p].persona # None]_vars

(* An Update and a GetOrCreate of the same user id have both returned and  *)
(* the record is still there. *)
C22_RecordOutlivedOperations ==
    \E p, q \in Procs :
        /\ Succeeded(p) /\ proc[p].op = "update"
        /\ Succeeded(q) /\ proc[q].op = "get_or_create"
        /\ proc[p].user_id = proc[q].user_id
        /\ StoreView(proc[p].user_id) # Absent


(* An object that is a Persona of either class with its traits in range. *)
ValidPersona(obj) ==
    /\ obj.cls \in {"domain", "legacy"}
    /\ validate_ranges(obj).err = NoError

InvalidSaveArguments(user_id, ref) ==
    \/ user_id = ""
    \/ ref = None
    \/ ~ValidPersona(heap[ref])

(* C23: a save_persona call whose user id is empty or whose persona        *)
(* argument is no valid Persona (None, or an object that is no Persona)    *)
(* ends at once with ValueError, the InvalidArgument category, and leaves  *)
(* the Store's content as it was.                                          *)
C23_SaveRejectsInvalidArguments ==
    [][\A p \in Procs :
           /\ rep'[p] # rep[p]
           /\ rep[p].pc \in {"idle", "done"}
           /\ rep'[p].op = "save"
           /\ InvalidSaveArguments(rep'[p].user_id, rep'[p].persona)
           => /\ rep'[p].pc = "done"
              /\ IsValueError(rep'[p].err)
              /\ storage' = storage
              /\ table' = table]_vars


(* C24: a persona's user id never changes once assigned: no step changes   *)
(* the user_id of an object that has one (update_trait called with         *)
(* "user_id" included), every object the in-memory Store holds under key u *)
(* has user id u, and the persona a use case returns for user id u has     *)
(* user id u.                                                              *)
C24_UserIdImmutable ==
    [][/\ \A i \in DOMAIN heap :
              "user_id" \in DOMAIN heap[i]
              => /\ "user_id" \in DOMAIN heap'[i]
                 /\ heap'[i]["user_id"] = heap[i]["user_id"]
       /\ \A i \in DOMAIN storage' :
              /\ "user_id" \in DOMAIN heap'[storage'[i][2]]
              /\ heap'[storage'[i][2]]["user_id"] = storage'[i][1]
       /\ \A p \in Procs :
              /\ proc'[p] # proc[p]
              /\ proc'[p].pc = "done" /\ proc'[p].err = NoError
              => /\ "user_id" \in DOMAIN heap'[proc'[p].ret]
                 /\ heap'[proc'[p].ret]["user_id"] = proc'[p].user_id]_vars


(* A step in which thread p's invocation made its save_persona call for    *)
(* user id u. *)
MadeSave(p, u) ==
    /\ proc[p].pc \in {"save", "create"}
    /\ proc[p].user_id = u
    /\ proc'[p] # proc[p]

(* C25: what the Store holds for a user id, and so what any get_persona    *)
(* for it returns, changes only in a step that is a save_persona call for  *)
(* that user id; the assignment an Update makes between its get and its    *)
(* save changes nothing the Store reports.                                 *)
C25_StoreChangesOnlyBySave ==
    [][\A u \in UserIds :
           StoreView(u)' # StoreView(u) => \E p \in Procs : MadeSave(p, u)]_vars


(* Thread q's Update has returned and the Store holds the value it wrote. *)
UpdateInEffect(q) ==
    /\ Succeeded(q) /\ proc[q].op = "update"
    /\ StoreView(proc[q].user_id) # Absent
    /\ StoreView(proc[q].user_id)[proc[q].trait_name] = proc[q].new_value

(* C26: no step of a GetOrCreate, in any interleaving with Updates,        *)
(* replaces a trait value that a completed Update of the same user id      *)
(* wrote and the Store still holds.                                        *)
C26_GetOrCreateKeepsUpdates ==
    [][\A p, q \in Procs :
           /\ proc[p].op = "get_or_create"
           /\ proc'[p] # proc[p]
           /\ UpdateInEffect(q)
           /\ proc[q].user_id = proc[p].user_id
           => StoreView(proc[q].user_id)'[proc[q].trait_name]
                  = proc[q].new_value]_vars


(* The number of records the Store holds for a user id. *)
RecordsOf(u) ==
    IF backend = "memory"
    THEN Cardinality({i \in DOMAIN storage : storage[i][1] = u})
    ELSE Len(filter_by(table, u))

(* Threads p and q each ran GetOrCreate for the same user id, and each was *)
(* told by its get_persona that the user id has no record. *)
BothFoundAbsent(p, q) ==
    /\ p # q
    /\ Done(p) /\ Done(q)
    /\ proc[p].op = "get_or_create" /\ proc[q].op = "get_or_create"
    /\ proc[p].user_id = proc[q].user_id
    /\ FoundAbsent(proc[p]) /\ FoundAbsent(proc[q])

(* C27: when two GetOrCreate invocations for the same user id have both    *)
(* read absent and have finished, both returned without error a persona    *)
(* with all five traits 3.0, and the Store holds exactly one record for    *)
(* the user id, with either Store.                                         *)
C27_ConcurrentFirstCalls ==
    \A p, q \in Procs :
        BothFoundAbsent(p, q)
        => /\ proc[p].err = NoError /\ proc[q].err = NoError
           /\ proc[p].result = DefaultRow /\ proc[q].result = DefaultRow
           /\ RecordsOf(proc[p].user_id) = 1


(* Threads p and q each ran an Update of the same user id that returned,   *)
(* and the two changed different traits. *)
BothUpdated(p, q) ==
    /\ p # q
    /\ Succeeded(p) /\ Succeeded(q)
    /\ proc[p].op = "update" /\ proc[q].op = "update"
    /\ proc[p].user_id = proc[q].user_id
    /\ proc[p].trait_name # proc[q].trait_name

(* C28: after two successful Updates of one user id that changed different *)
(* traits, in any interleaving, the stored record has at least one of the  *)
(* two new values; a trait whose new value is missing has the value the    *)
(* other Update read for it (that Update's save overwrote it); and the     *)
(* three traits neither Update changed have the values both read.          *)
C28_OneOfThreeOutcomes ==
    \A p, q \in Procs :
        BothUpdated(p, q)
        => LET held == StoreView(proc[p].user_id)
               tp == proc[p].trait_name
               tq == proc[q].trait_name
           IN  /\ held # Absent
               /\ held[tp] = proc[p].new_value \/ held[tq] = proc[q].new_value
               /\ held[tp] \in {proc[p].new_value, proc[q].read[tp]}
               /\ held[tq] \in {proc[q].new_value, proc[p].read[tq]}
               /\ \A t \in TraitSet \ {tp, tq} :
                      held[t] = proc[p].read[t] /\ held[t] = proc[q].read[t]

(* Two Updates read the same record, changed different traits, both        *)
(* returned, and the stored record has both changes. *)
C28_BothChangesSurvived ==
    \E p, q \in Procs :
        /\ BothUpdated(p, q)
        /\ proc[p].read = proc[q].read
        /\ proc[p].new_value # proc[p].read[proc[p].trait_name]
        /\ proc[q].new_value # proc[q].read[proc[q].trait_name]
        /\ StoreView(proc[p].user_id)[proc[p].trait_name] = proc[p].new_value
        /\ StoreView(proc[p].user_id)[proc[q].trait_name] = proc[q].new_value


(* Thread q's current or previous invocation is one for user id u that     *)
(* called update_trait or save_persona. *)
WroteTo(q, u) ==
    \E inv \in (IF proc[q].op = "none" THEN {}
                ELSE {Summary(proc[q]), proc[q].prev}) :
        /\ inv.op \in {"update", "legacy_update", "get_or_create"}
        /\ inv.user_id = u
        /\ \E i \in DOMAIN inv.calls : inv.calls[i] \in {"update_trait", "save"}

C30_OtherUsersUntouched ==
    [][\A p \in Procs :
           proc'[p] # proc[p]
           => \A u \in UserIds \ {proc'[p].user_id} :
                  /\ StoreView(u)' = StoreView(u)
                  /\ RecordsOf(u)' = RecordsOf(u)]_vars

(* An Update changed a trait of one user id while the Store held a record  *)
(* for another. *)
C30_UpdatedBesideOtherRecord ==
    \E p \in Procs :
        /\ Succeeded(p) /\ proc[p].op = "update"
        /\ proc[p].new_value # proc[p].read[proc[p].trait_name]
        /\ \E u \in UserIds \ {proc[p].user_id} : StoreView(u) # Absent

====
